---- MODULE Spec2Model ----
(***************************************************************************)
(* Model of app.py, the Streamlit inventory optimizer: sidebar            *)
(* configuration, CSV upload, product selection and the "Analizar          *)
(* Inventario" handler (ETL, date parsing, Prophet fit/predict, reorder    *)
(* point).                                                                 *)
(*                                                                         *)
(* Text is modelled as a sequence of one-character strings, so that the    *)
(* grouping of rows by date TEXT, the lexicographic order pandas gives the *)
(* group keys and the day-first parsing of that text are all computed.     *)
(* Prophet is a black box: its reply is chosen nondeterministically from a *)
(* family of forecasts; only its documented row count (history dates plus  *)
(* periods) and its "less than 2 rows" / non-numeric y errors are modelled. *)
(***************************************************************************)
EXTENDS Integers, Sequences, FiniteSets, TLC

VARIABLES
    uploaded_file,   \* rows of the uploaded CSV, <<>> when nothing is uploaded
    selected_prod,   \* value of the product selectbox
    lead_time,       \* sidebar number_input
    interval_width,  \* sidebar slider, in percent
    df_prophet,      \* series handed to Prophet.fit by the last analysis
    engineInvoked,   \* TRUE iff the last analysis called Prophet.fit
    forecast,        \* forecast frame of the last analysis, <<>> if none
    punto_reorden,   \* reorder point of the last analysis: <<n>>, or <<>> if none
    ui,              \* elements the last analysis rendered
    history          \* log: the previous completed analysis of this configuration

vars == <<uploaded_file, selected_prod, lead_time, interval_width, df_prophet,
          engineInvoked, forecast, punto_reorden, ui, history>>

NoValue == "none"

Min(a, b) == IF a <= b THEN a ELSE b

\* An optional value: <<>> or <<v>>.
None == <<>>

Some(v) == <<v>>

-----------------------------------------------------------------------------
(* Bounds of the model *)

MaxRows == 3          \* rows of an uploaded file in the preparation runs
MaxLeadTime == 32     \* largest lead_time entered in the sidebar

(* Program constants *)

Periods == 30         \* make_future_dataframe(periods=30)
TailRows == 30        \* forecast.tail(30)
DefaultLeadTime == 3  \* number_input value=3
MinLeadTime == 1      \* number_input min_value=1
DefaultWidth == 80    \* slider value=0.80, in percent

-----------------------------------------------------------------------------
(* Text *)

Digits == <<"0", "1", "2", "3", "4", "5", "6", "7", "8", "9">>

DigitSet == {Digits[i] : i \in 1..10}

DigitValue(c) == (CHOOSE i \in 1..10 : Digits[i] = c) - 1

\* Code point of a character of a date text ("/" is 47, "0".."9" are 48..57).
Ord(c) == IF c = "/" THEN 47 ELSE 48 + DigitValue(c)

RECURSIVE TextLess(_, _)
\* Python's str "<": lexicographic by code point, a proper prefix is smaller.
TextLess(a, b) ==
    IF a = <<>> THEN b # <<>>
    ELSE IF b = <<>> THEN FALSE
    ELSE IF Ord(Head(a)) # Ord(Head(b)) THEN Ord(Head(a)) < Ord(Head(b))
    ELSE TextLess(Tail(a), Tail(b))

IsDigits(s) == s # <<>> /\ \A i \in 1..Len(s) : s[i] \in DigitSet

RECURSIVE ParseInt(_)
\* Value of a non-empty digit string.
ParseInt(s) ==
    IF Len(s) = 1 THEN DigitValue(s[1])
    ELSE 10 * ParseInt(SubSeq(s, 1, Len(s) - 1)) + DigitValue(s[Len(s)])

RECURSIVE Fields(_)
\* The text split at every "/".
Fields(s) ==
    IF \A i \in 1..Len(s) : s[i] # "/" THEN <<s>>
    ELSE LET k == CHOOSE i \in 1..Len(s) :
                      s[i] = "/" /\ \A j \in 1..(i - 1) : s[j] # "/"
         IN <<SubSeq(s, 1, k - 1)>> \o Fields(SubSeq(s, k + 1, Len(s)))

-----------------------------------------------------------------------------
(* Calendar dates *)

NaT == [year |-> 0, month |-> 0, day |-> 0]

IsLeap(y) == (y % 4 = 0 /\ y % 100 # 0) \/ y % 400 = 0

DaysInMonth(m, y) ==
    IF m = 2 THEN (IF IsLeap(y) THEN 29 ELSE 28)
    ELSE IF m \in {4, 6, 9, 11} THEN 30 ELSE 31

\* pd.to_datetime(text, dayfirst=True) of one "d/m/y" text: the date, or NaT
\* where pandas raises. Texts that are a valid date only month-first are not
\* among the inputs of this model.
to_datetime(text) ==
    LET f == Fields(text)
    IN IF Len(f) = 3 /\ \A i \in 1..3 : IsDigits(f[i])
       THEN LET d == ParseInt(f[1])
                m == ParseInt(f[2])
                y == ParseInt(f[3])
            IN IF m \in 1..12 /\ d >= 1 /\ d <= DaysInMonth(m, y)
               THEN [year |-> y, month |-> m, day |-> d]
               ELSE NaT
       ELSE NaT

DateLess(a, b) ==
    \/ a.year < b.year
    \/ a.year = b.year /\ a.month < b.month
    \/ a.year = b.year /\ a.month = b.month /\ a.day < b.day

-----------------------------------------------------------------------------
(* The uploaded file and pd.read_csv *)

\* A cell of the quantity column as pandas holds it: an integer when the whole
\* column parsed as numbers, otherwise the cell's text (dtype object).
IntCell(n) == [kind |-> "int", val |-> n, txt |-> <<>>]

StrCell(s) == [kind |-> "str", val |-> 0, txt |-> s]

\* pd.read_csv: the dtype of the quantity column is inferred from ALL its
\* cells; the date and product columns stay text.
read_csv(file) ==
    LET numeric == \A i \in 1..Len(file) : IsDigits(file[i].cant)
    IN [i \in 1..Len(file) |->
           [fecha |-> file[i].fecha,
            prod  |-> file[i].prod,
            cant  |-> IF numeric THEN IntCell(ParseInt(file[i].cant))
                                 ELSE StrCell(file[i].cant)]]

\* df[col_prod].unique(): the products in order of first appearance.
productos(df) ==
    LET first == {i \in 1..Len(df) : \A j \in 1..(i - 1) : df[j].prod # df[i].prod}
        Pick[k \in 0..Cardinality(first)] ==
            IF k = 0 THEN <<>>
            ELSE LET i == CHOOSE x \in first :
                              Cardinality({z \in first : z < x}) = k - 1
                 IN Append(Pick[k - 1], df[i].prod)
    IN Pick[Cardinality(first)]

-----------------------------------------------------------------------------
(* ETL of the analysis *)

\* df[df[col_prod] == selected_prod]
df_filtered(df, prod) == SelectSeq(df, LAMBDA r : r.prod = prod)

RECURSIVE SortTexts(_)
\* The texts of S in ascending lexicographic order (groupby sorts its keys).
SortTexts(S) ==
    IF S = {} THEN <<>>
    ELSE LET m == CHOOSE x \in S : \A y \in S \ {x} : TextLess(x, y)
         IN <<m>> \o SortTexts(S \ {m})

\* "+" of two cells of one column: addition of integers, concatenation of text.
AddCell(a, b) == [kind |-> a.kind, val |-> a.val + b.val, txt |-> a.txt \o b.txt]

RECURSIVE SumCells(_)
\* Series.sum() over the cells of one group, in row order.
SumCells(cells) ==
    IF Len(cells) = 1 THEN cells[1]
    ELSE AddCell(cells[1], SumCells(Tail(cells)))

\* df_filtered.groupby(col_fecha)[col_cant].sum().reset_index(): one row per
\* distinct date TEXT, ordered by that text.
GroupSum(rows) ==
    LET keys == SortTexts({rows[i].fecha : i \in 1..Len(rows)})
    IN [k \in 1..Len(keys) |->
           LET grp == SelectSeq(rows, LAMBDA r : r.fecha = keys[k])
           IN [ds |-> keys[k],
               y  |-> SumCells([i \in 1..Len(grp) |-> grp[i].cant])]]

\* Faulty variant: errors='coerce', a text that is no date becomes NaT and nothing raises.
DatesRaise_coerce(grouped) == FALSE

\* pd.to_datetime(df_prophet['ds'], dayfirst=True) raises.
DatesRaise(grouped) == \E i \in 1..Len(grouped) : to_datetime(grouped[i].ds) = NaT

\* df_prophet['ds'] = pd.to_datetime(...): the rows keep their order.
ParseDates(grouped) ==
    [i \in 1..Len(grouped) |-> [ds |-> to_datetime(grouped[i].ds), y |-> grouped[i].y]]

-----------------------------------------------------------------------------
(* Prophet *)

\* pd.to_numeric of a y cell, as Prophet.fit applies it; None where it raises.
YValue(cell) ==
    IF cell.kind = "int" THEN Some(cell.val)
    ELSE IF IsDigits(cell.txt) THEN Some(ParseInt(cell.txt)) ELSE None

\* Prophet.fit raises ValueError: fewer than 2 rows, or a y that is no number.
FitRaises(series) ==
    \/ Len(series) < 2
    \/ \E i \in 1..Len(series) : series[i].y.kind = "str" /\ ~IsDigits(series[i].y.txt)

\* Number of history dates of the fitted model (distinct ds of the series).
HistoryDates(series) == Cardinality({series[i].ds : i \in 1..Len(series)})

EngineError == <<>>

\* A forecast frame of h history rows followed by Periods future rows.
\* yhat_upper is base everywhere except spike at row p; the band has half-width gap.
MakeForecast(h, base, p, spike, gap) ==
    [i \in 1..(h + Periods) |->
        LET u == IF i = p THEN spike ELSE base
        IN [yhat |-> u - gap, yhat_lower |-> u - 2 * gap, yhat_upper |-> u]]

-----------------------------------------------------------------------------
(* Reorder point *)

\* DataFrame.tail(n): the last n rows, all of them when there are fewer.
tail(frame, n) ==
    IF n >= Len(frame) THEN frame ELSE SubSeq(frame, Len(frame) - n + 1, Len(frame))

\* DataFrame.head(n): the first n rows, all of them when there are fewer.
head(frame, n) == IF n >= Len(frame) THEN frame ELSE SubSeq(frame, 1, n)

\* Faulty variant: the tail(30) is forgotten, the head is taken of the whole forecast.
futuro_lead_time_no_tail(fc, lt) == head(fc, lt)

\* Faulty variant: the tail grows with the lead time, so a lead time beyond the
\* horizon reaches back into the history rows.
futuro_lead_time_grown_tail(fc, lt) ==
    head(tail(fc, IF lt > TailRows THEN lt ELSE TailRows), lt)

\* forecast.tail(30).head(lead_time)
futuro_lead_time(fc, lt) == head(tail(fc, TailRows), lt)

\* Faulty variant: the point estimate is summed instead of the upper bound.
DemandColumn_yhat(row) == row.yhat

\* The column the reorder point is summed over.
DemandColumn(row) == row.yhat_upper

RECURSIVE SumColumn(_)
\* futuro_lead_time['yhat_upper'].sum()
SumColumn(frame) ==
    IF frame = <<>> THEN 0 ELSE DemandColumn(Head(frame)) + SumColumn(Tail(frame))

ReorderPoint(fc, lt) == SumColumn(futuro_lead_time(fc, lt))

-----------------------------------------------------------------------------
(* The "Analizar Inventario" handler *)

NoResult ==
    [df_prophet |-> <<>>, engineInvoked |-> FALSE, forecast |-> <<>>,
     punto_reorden |-> None, ui |-> {}]

\* Lines 90-101: filter, group and sum, parse the dates. The series Prophet
\* is to be fitted on, or None when pd.to_datetime raised.
Prepare(file, prod) ==
    LET grouped == GroupSum(df_filtered(read_csv(file), prod))
    IN IF DatesRaise(grouped) THEN None ELSE Some(ParseDates(grouped))

\* Lines 104-150 on the prepared series, for the reply the engine gives
\* (EngineError: fit or predict raised).
Model(series, lt, reply) ==
    IF FitRaises(series) \/ reply = EngineError
    THEN \* the exception reaches the outer "except Exception"
         [NoResult EXCEPT !.df_prophet = series,
                          !.engineInvoked = TRUE,
                          !.ui = {"error"}]
    ELSE [df_prophet    |-> series,
          engineInvoked |-> TRUE,
          forecast      |-> reply,
          punto_reorden |-> Some(ReorderPoint(reply, lt)),
          ui            |-> {"chart", "success", "metrics", "info", "export"}]

\* The handler's outcome when pd.to_datetime raised: st.error and st.stop().
DateError == [NoResult EXCEPT !.ui = {"date_error"}]

\* Families of forecasts the engine's reply is drawn from.
FlatReplies(h) == {MakeForecast(h, 1, 0, 1, 1)}

SpikeReplies(h) ==
    {MakeForecast(h, base, p, spike, 1) :
        base \in {0, 1}, p \in 1..(h + Periods), spike \in {-1, 2}}

BandReplies(h) ==
    {MakeForecast(h, 0, p, spike, gap) :
        p \in {h + 1, h + Periods}, spike \in {-1, 1}, gap \in {1, 2}}

Family(name, h) ==
    CASE name = "flat"  -> FlatReplies(h)
      [] name = "spike" -> SpikeReplies(h)
      [] name = "band"  -> BandReplies(h)

\* The replies the engine may give on a prepared series: a forecast of the
\* named family over the history dates; when all rows share one date the fit is
\* degenerate and may also raise.
Replies(family, series) ==
    LET h == HistoryDates(series)
    IN Family(family, h) \cup (IF h < 2 THEN {EngineError} ELSE {})

\* yhat_upper of the Periods future rows the engine appended to the history.
FutureUpper(fc) ==
    LET h == Len(fc) - Periods IN [i \in 1..Periods |-> fc[h + i].yhat_upper]

\* The entry the log keeps of a completed analysis.
LogEntry(r) ==
    [lead_time |-> lead_time, interval_width |-> interval_width,
     yhat_upper |-> FutureUpper(r.forecast), punto_reorden |-> r.punto_reorden[1]]

\* The log holds the last two completed analyses.
Logged(r) ==
    IF "metrics" \notin r.ui THEN history
    ELSE IF Len(history) < 2 THEN Append(history, LogEntry(r))
    ELSE <<history[2], LogEntry(r)>>

Shows(r) ==
    /\ df_prophet' = r.df_prophet
    /\ engineInvoked' = r.engineInvoked
    /\ forecast' = r.forecast
    /\ punto_reorden' = r.punto_reorden
    /\ ui' = r.ui

\* st.button("Analizar Inventario") pressed.
Analyze(family, log) ==
    /\ uploaded_file # <<>>
    /\ LET prepared == Prepare(uploaded_file, selected_prod)
       IN IF prepared = None
          THEN Shows(DateError) /\ UNCHANGED history
          ELSE \E reply \in Replies(family, prepared[1]) :
                  LET r == Model(prepared[1], lead_time, reply)
                  IN /\ Shows(r)
                     /\ history' = IF log THEN Logged(r) ELSE history
    /\ UNCHANGED <<uploaded_file, selected_prod, lead_time, interval_width>>

-----------------------------------------------------------------------------
(* Widgets: every change reruns the script with the button unpressed, so the *)
(* results of the last analysis are no longer rendered.                      *)

\* st.file_uploader: the product selectbox falls on the first product.
Upload(file) ==
    /\ uploaded_file' = file
    /\ selected_prod' = productos(read_csv(file))[1]
    /\ Shows(NoResult)
    /\ history' = <<>>
    /\ UNCHANGED <<lead_time, interval_width>>

\* The uploader's file is removed: the script takes its else branch.
RemoveFile ==
    /\ uploaded_file # <<>>
    /\ uploaded_file' = <<>>
    /\ selected_prod' = NoValue
    /\ Shows(NoResult)
    /\ history' = <<>>
    /\ UNCHANGED <<lead_time, interval_width>>

\* st.selectbox over productos.
SelectProduct(p) ==
    /\ uploaded_file # <<>>
    /\ \E i \in 1..Len(productos(read_csv(uploaded_file))) :
          productos(read_csv(uploaded_file))[i] = p
    /\ p # selected_prod
    /\ selected_prod' = p
    /\ Shows(NoResult)
    /\ history' = <<>>
    /\ UNCHANGED <<uploaded_file, lead_time, interval_width>>

\* st.sidebar.number_input: min_value=1, no max_value.
SetLeadTime(lt) ==
    /\ lt >= MinLeadTime
    /\ lt # lead_time
    /\ lead_time' = lt
    /\ Shows(NoResult)
    /\ history' = <<>>
    /\ UNCHANGED <<uploaded_file, selected_prod, interval_width>>

\* st.sidebar.slider: 0.5 to 0.99.
SetIntervalWidth(w) ==
    /\ w >= 50 /\ w <= 99
    /\ w # interval_width
    /\ interval_width' = w
    /\ Shows(NoResult)
    /\ UNCHANGED <<uploaded_file, selected_prod, lead_time, history>>

-----------------------------------------------------------------------------
(* Inputs *)

Year == <<"2", "0", "2", "4">>

Pad2(n) == <<Digits[(n \div 10) + 1], Digits[(n % 10) + 1]>>

Unpadded(n) == IF n < 10 THEN <<Digits[n + 1]>> ELSE Pad2(n)

\* "dd/mm/2024", or "d/m/2024" when not padded.
DateText(d, m, padded) ==
    (IF padded THEN Pad2(d) ELSE Unpadded(d)) \o <<"/">> \o
    (IF padded THEN Pad2(m) ELSE Unpadded(m)) \o <<"/">> \o Year

BadDateText == Pad2(32) \o <<"/">> \o Pad2(13) \o <<"/">> \o Year

\* 1 February padded and unpadded, 2 January, and a text that is no date.
PrepDateTexts ==
    {DateText(1, 2, TRUE), DateText(1, 2, FALSE), DateText(2, 1, TRUE), BadDateText}

Products == {"A100", "B200"}

QtyTexts == {<<"1">>, <<"a", "b", "c">>}

PrepRows == [fecha : PrepDateTexts, prod : Products, cant : QtyTexts]

PrepFiles == UNION {[1..n -> PrepRows] : n \in 1..MaxRows}

\* The program's own example file.
example_data ==
    [i \in 1..5 |->
        [fecha |-> DateText(i, 1, TRUE),
         prod  |-> "A100",
         cant  |-> <<Pad2(10), Pad2(15), Unpadded(8), Pad2(12), Pad2(20)>>[i]]]

ExampleFiles == {SubSeq(example_data, 1, n) : n \in 1..Len(example_data)}

Widths == {80, 99}

-----------------------------------------------------------------------------
(* Specifications *)

Init ==
    /\ uploaded_file = <<>>
    /\ selected_prod = NoValue
    /\ lead_time = DefaultLeadTime
    /\ interval_width = DefaultWidth
    /\ df_prophet = <<>>
    /\ engineInvoked = FALSE
    /\ forecast = <<>>
    /\ punto_reorden = None
    /\ ui = {}
    /\ history = <<>>

\* The runs below take the widgets one step at a time: a file is uploaded into
\* the empty uploader, the lead time moves by the number_input's step, and the
\* button is pressed when no result is on the page (a press on an unchanged
\* page repeats the run it already shows).
StepLeadTime == \E lt \in {lead_time - 1, lead_time + 1} : lt <= MaxLeadTime /\ SetLeadTime(lt)

\* Preparation: any small file, any product of it, the default sidebar.
NextPrepare ==
    \/ uploaded_file = <<>> /\ \E file \in PrepFiles : Upload(file)
    \/ RemoveFile
    \/ \E p \in Products : SelectProduct(p)
    \/ ui = {} /\ Analyze("flat", FALSE)

Spec == Init /\ [][NextPrepare]_vars

\* Reorder point: the example file and its prefixes, any lead time, forecasts
\* that differ from row to row.
NextReorder ==
    \/ uploaded_file = <<>> /\ \E file \in ExampleFiles : Upload(file)
    \/ RemoveFile
    \/ StepLeadTime
    \/ ui = {} /\ Analyze("spike", FALSE)

SpecReorder == Init /\ [][NextReorder]_vars

\* Two analyses of one file, product and lead time under different widths.
NextMonotone ==
    \/ uploaded_file = <<>> /\ Upload(example_data)
    \/ StepLeadTime
    \/ \E w \in Widths : SetIntervalWidth(w)
    \/ ui = {} /\ Analyze("band", TRUE)

SpecMonotone == Init /\ [][NextMonotone]_vars

-----------------------------------------------------------------------------
(* Properties *)

\* An analysis has run and its outcome is on the page.
Ran == ui # {}

\* The analysis completed: the reorder point is on the page.
Completed == "metrics" \in ui

\* The analysis ended in an error message.
Failed == ui \cap {"date_error", "error"} # {}

\* Number of history rows of the forecast on the page.
H == Len(forecast) - Periods

RECURSIVE UpperSum(_, _, _)
\* Sum of yhat_upper over the rows lo..hi of a forecast.
UpperSum(fc, lo, hi) ==
    IF lo > hi THEN 0 ELSE fc[hi].yhat_upper + UpperSum(fc, lo, hi - 1)

\* C1: for a forecast of H >= 2 history rows followed by exactly 30 future
\* rows and a lead time L in 1..30, the reorder point is the sum of yhat_upper
\* over exactly the future rows H+1 .. H+L; no history row and no other column
\* enters the sum.
C1_ReorderSumsFirstLUpper ==
    (Completed /\ H >= 2 /\ HistoryDates(df_prophet) = H
        /\ lead_time >= 1 /\ lead_time <= Periods)
    => punto_reorden = Some(UpperSum(forecast, H + 1, H + lead_time))

\* The reorder point of a 7-day lead time on 5 history rows, where the 7th
\* future row differs from all others and yhat differs from yhat_upper.
C1_Witness ==
    /\ Completed /\ H = 5 /\ lead_time = 7
    /\ forecast[H + 7].yhat_upper = 2 /\ forecast[1].yhat_upper = 1
    /\ forecast[H + 7].yhat # 2
    /\ punto_reorden = Some(8)

\* C2: with a lead time greater than 30 the analysis ends in an error before
\* any summation, and no reorder point is produced.
C2_LeadTimeBeyondHorizonRejected ==
    (Ran /\ lead_time > Periods) => (Failed /\ ~Completed /\ punto_reorden = None)

\* C9: every reorder point the analysis produces is non-negative.
C9_ReorderPointNonNegative ==
    punto_reorden # None => punto_reorden[1] >= 0

\* C10: for every lead time >= 1 an analysis of at least 2 dated rows
\* completes, and its reorder point is the sum of yhat_upper over the first
\* min(lead_time, 30) future rows: never more than 30 rows, never a history row.
C10_ReorderClampsToHorizon ==
    (Ran /\ Len(df_prophet) >= 2 /\ lead_time >= 1)
    => /\ Completed
       /\ punto_reorden = Some(UpperSum(forecast, H + 1, H + Min(lead_time, Periods)))

\* A completed analysis with lead time 32 whose last future row and last
\* history row both stand out.
C10_Witness ==
    /\ Completed /\ lead_time = Periods + 2 /\ H = 4
    /\ forecast[H + Periods].yhat_upper = -1 /\ forecast[H].yhat_upper = 1
    /\ punto_reorden = Some(Periods - 2)

\* The second logged analysis has yhat_upper >= the first on every future row.
UpperNotBelow(b, a) == \A i \in 1..Periods : b.yhat_upper[i] >= a.yhat_upper[i]

\* C8: of two completed analyses of one file, product and lead time, the one
\* under the width w2 >= w1 whose yhat_upper is >= the other's on every future
\* row has a reorder point >= the other's.
C8_ReorderMonotoneInUpper ==
    Len(history) = 2 =>
        \A a, b \in {history[1], history[2]} :
            (a.interval_width <= b.interval_width /\ UpperNotBelow(b, a))
            => b.punto_reorden >= a.punto_reorden

\* Two logged analyses, the second under a wider interval, with a higher
\* yhat_upper on the first future row and a strictly higher reorder point.
C8_Witness ==
    /\ Len(history) = 2
    /\ history[1].interval_width < history[2].interval_width
    /\ history[1].lead_time = history[2].lead_time
    /\ UpperNotBelow(history[2], history[1])
    /\ history[2].yhat_upper[1] > history[1].yhat_upper[1]
    /\ history[2].punto_reorden > history[1].punto_reorden

-----------------------------------------------------------------------------
(* Properties of the preparation *)

\* The rows of the uploaded file that belong to the selected product.
SelectedRows == SelectSeq(uploaded_file, LAMBDA r : r.prod = selected_prod)

\* Every date of the selected product's rows is a date, day first.
DatesValid == \A i \in 1..Len(SelectedRows) : to_datetime(SelectedRows[i].fecha) # NaT

\* The calendar dates of the selected product's rows with a numeric quantity.
ValidDates ==
    {to_datetime(SelectedRows[i].fecha) :
        i \in {j \in 1..Len(SelectedRows) : IsDigits(SelectedRows[j].cant)}}

\* The whole quantity column of the file is numeric.
QuantitiesNumeric == \A i \in 1..Len(uploaded_file) : IsDigits(uploaded_file[i].cant)

RECURSIVE QuantityOn(_, _)
\* Sum of the quantities of the given rows that fall on the calendar date d.
QuantityOn(rows, d) ==
    IF rows = <<>> THEN 0
    ELSE (IF to_datetime(Head(rows).fecha) = d THEN ParseInt(Head(rows).cant) ELSE 0)
         + QuantityOn(Tail(rows), d)

\* C3: when the selected product's rows hold at least 2 distinct valid dates,
\* the series handed to the engine is strictly ascending by calendar date.
C3_SeriesAscendingByDate ==
    (engineInvoked /\ HistoryDates(df_prophet) >= 2)
    => \A i, j \in 1..Len(df_prophet) :
           i < j => DateLess(df_prophet[i].ds, df_prophet[j].ds)

\* C4: the series handed to the engine holds exactly one entry per calendar
\* date of the selected product's rows, whose quantity is the sum of that
\* date's rows (stated for files whose quantity column is numeric).
C4_OneSummedEntryPerDate ==
    (engineInvoked /\ QuantitiesNumeric)
    => \A d \in ValidDates :
           /\ Cardinality({i \in 1..Len(df_prophet) : df_prophet[i].ds = d}) = 1
           /\ \A i \in 1..Len(df_prophet) :
                  df_prophet[i].ds = d
                  => YValue(df_prophet[i].y) = Some(QuantityOn(SelectedRows, d))

\* C5: when fewer than 2 valid (date, quantity) pairs remain for the selected
\* product, the analysis ends in an error, the engine is never invoked and no
\* reorder point is produced.
C5_InsufficientDataHaltsBeforeEngine ==
    (Ran /\ DatesValid /\ Cardinality(ValidDates) < 2)
    => (Failed /\ ~engineInvoked /\ punto_reorden = None)

C7_NonNumericQuantityDropped ==
    (Ran /\ DatesValid /\ Cardinality(ValidDates) >= 2
        /\ \E i \in 1..Len(SelectedRows) : ~IsDigits(SelectedRows[i].cant))
    => (Completed /\ ~Failed)

====
